---- MODULE Spec2Model ----
(***************************************************************************)
(* Ganttify: the schedule resolution of task-utils.ts (processTasks,       *)
(* addWorkingDays, getCalendarDuration), the raw records parseCsv of       *)
(* csv-uploader.tsx hands to it, and the page that uploads, clears and     *)
(* exports the chart's tasks (page.tsx, csv-uploader.tsx).                 *)
(*                                                                         *)
(* A Date is a local calendar day at midnight, modelled by its day number; *)
(* day 0 is a Sunday, so getDay(d) = d % 7 with 0 = Sunday, 6 = Saturday,  *)
(* and day 4 is a Thursday.  getTime is                                    *)
(* the absolute time of that local midnight, in hours: it is not 24 * d    *)
(* when the browser's time zone changes its UTC offset inside the range.   *)
(***************************************************************************)
EXTENDS Integers, Sequences, FiniteSets, TLC

VARIABLES
    rawTasks,          \* processTasks' argument: the RawTask[] parseCsv built
    tz,                \* the time zone's change of UTC offset (hours) at DstDay
    pc,                \* position in processTasks
    i,                 \* index of the for-loop over rawTasks (1-based)
    pass,              \* count of while-loop iterations started (kept for the properties)
    changedInPass,
    processed,         \* Set<string> of task ids
    taskMap,           \* Map<string, Task>, keyed by id
    orderedTasks,      \* Task[] in processing order, sorted at the end
    resourceEndDates,  \* Map<string, Date>, the resource ledger
    outcome,           \* what processTasks returned or threw
    tasks,             \* page.tsx: the chart's Task[] (useState, line 43)
    key,               \* page.tsx: the chart's key, here the count of setKey calls
    isUploaderOpen,    \* page.tsx: the uploader sheet is open
    file,              \* csv-uploader.tsx: the selected File or null
    projectName,       \* csv-uploader.tsx: the project name field
    pending,           \* FileReader reads started and not yet loaded
    toast,             \* the last notification raised
    download,          \* page.tsx: the file the last Export CSV wrote, or none
    event,             \* the last thing that happened in the page (kept for the properties)
    round,             \* how often a caller has passed a returned list back in
    firstResult        \* the list returned before it was passed back in

uiVars == <<tasks, key, isUploaderOpen, file, projectName, pending, toast,
           download, event>>

callerVars == <<round, firstResult>>

envVars == <<uiVars, callerVars>>

vars == <<rawTasks, tz, pc, i, pass, changedInPass, processed, taskMap,
          orderedTasks, resourceEndDates, outcome, envVars>>

----------------------------------------------------------------------------
(* Bounds of the checked inputs *)

FirstStart == 4        \* earliest requested start date (a Thursday)
MaxStartOffset == 3    \* requested start dates: FirstStart .. FirstStart + MaxStartOffset
MaxDur == 2            \* workingDuration: 1 .. MaxDur

StartDays == FirstStart .. (FirstStart + MaxStartOffset)
Durations == 1 .. MaxDur

\* The first local midnight after the time zone's clock change (a Monday:
\* clocks change in the night from Saturday to Sunday).
DstDay == 7 * ((FirstStart + 6) \div 7) + 1

\* tz = 0: no clock change in range; 1: clocks go back one hour (autumn),
\* so later midnights are one hour later; -1: clocks go forward (spring).
TzShifts == {0, 1, -1}

Undefined == "<undefined>"   \* a field the CSV row did not have

----------------------------------------------------------------------------
(* date-fns and Date primitives *)

HoursPerDay == 24

getDay(d) == d % 7

addDays(d, n) == d + n

getTimeIn(zone, d) == HoursPerDay * d + (IF d >= DstDay THEN zone ELSE 0)

getTime(d) == getTimeIn(tz, d)

\* date-fns max over two dates
dateMax2(a, b) == IF getTime(b) > getTime(a) THEN b ELSE a

\* date-fns max over a non-empty set of dates
dateMax(S) == CHOOSE d \in S : \A e \in S : getTime(e) <= getTime(d)

Max(a, b) == IF a >= b THEN a ELSE b

\* Math.ceil(a / b) for b > 0
CeilDiv(a, b) == -((-a) \div b)

----------------------------------------------------------------------------
(* task-utils.ts *)

RECURSIVE addWorkingDaysLoop(_, _)
addWorkingDaysLoop(currentDate, remainingDuration) ==
    IF remainingDuration > 0
    THEN LET next == addDays(currentDate, 1)
             dayOfWeek == getDay(next)
         IN  IF dayOfWeek # 0 /\ dayOfWeek # 6
             THEN addWorkingDaysLoop(next, remainingDuration - 1)
             ELSE addWorkingDaysLoop(next, remainingDuration)
    ELSE currentDate

\* a variant that counts calendar days instead of working days
addWorkingDays_CalendarDays(startDate, duration) ==
    IF duration - 1 < 0 THEN startDate ELSE addDays(startDate, duration - 1)

\* a variant that forgets that the start date counts as the first day
addWorkingDays_CountsFromNextDay(startDate, duration) ==
    IF duration - 1 < 0 THEN startDate
    ELSE addWorkingDaysLoop(startDate, duration)

addWorkingDays(startDate, duration) ==
    IF duration - 1 < 0 THEN startDate
    ELSE addWorkingDaysLoop(startDate, duration - 1)

getCalendarDurationIn(zone, startDate, endDate) ==
    Max(1, CeilDiv(getTimeIn(zone, endDate) - getTimeIn(zone, startDate), HoursPerDay) + 1)

getCalendarDuration(startDate, endDate) == getCalendarDurationIn(tz, startDate, endDate)

\* a variant that takes an empty string for a value
Truthy_NotUndefined(s) == s # Undefined

\* JavaScript truthiness of an optional string
Truthy(s) == s # Undefined /\ s # ""

N == Len(rawTasks)

\* a variant keyed by id, as if the map were built from [t.id, t]
rawTaskMapHas_ById(title) == \E k \in 1..Len(rawTasks) : rawTasks[k].id = title

\* new Map(rawTasks.map(t => [t.title, t])): a later entry replaces an earlier one
rawTaskMapHas(title) == \E k \in 1..N : rawTasks[k].title = title

rawTaskMapIndex(title) ==
    CHOOSE k \in 1..N : rawTasks[k].title = title
                        /\ \A m \in (k+1)..N : rawTasks[m].title # title

\* rawTaskMap.get(depTitle)?.id
depIdOf(depTitle) ==
    IF rawTaskMapHas(depTitle) THEN rawTasks[rawTaskMapIndex(depTitle)].id ELSE Undefined

MapHas(m, k) == k \in DOMAIN m

\* a variant that keeps the value a key already has
MapSet_KeepsExisting(m, k, v) ==
    [x \in (DOMAIN m) \cup {k} |-> IF x \in DOMAIN m THEN m[x] ELSE v]

MapSet(m, k, v) == [x \in (DOMAIN m) \cup {k} |-> IF x = k THEN v ELSE m[x]]

EmptyMap == [x \in {} |-> 0]

Range(s) == {s[k] : k \in DOMAIN s}

\* a variant whose inner loop looks at the first dependency only
MissingPairs_FirstDepOnly ==
    {<<k, 1>> : k \in {m \in 1..Len(rawTasks) :
                         /\ Len(rawTasks[m].dependencies) > 0
                         /\ \A n \in 1..Len(rawTasks) :
                               rawTasks[n].title # rawTasks[m].dependencies[1]}}

\* The pre-check: the (task, dependency) pairs whose dependency is not a key of
\* rawTaskMap, in the order the nested loops meet them.
MissingPairs ==
    UNION {{<<k, j>> : j \in {m \in 1..Len(rawTasks[k].dependencies) :
                                   ~rawTaskMapHas(rawTasks[k].dependencies[m])}} :
           k \in 1..N}

FirstMissing ==
    CHOOSE p \in MissingPairs :
        \A q \in MissingPairs : p[1] < q[1] \/ (p[1] = q[1] /\ p[2] <= q[2])

dependenciesMet(rawTask) ==
    \A j \in 1..Len(rawTask.dependencies) :
        LET depId == depIdOf(rawTask.dependencies[j])
        IN  IF Truthy(depId) THEN depId \in processed ELSE FALSE

\* The end dates of the dependencies that taskMap holds (the filter drops the rest)
dependencyEndDates(rawTask) ==
    {taskMap[depIdOf(rawTask.dependencies[j])].endDate :
        j \in {m \in 1..Len(rawTask.dependencies) :
                 LET depId == depIdOf(rawTask.dependencies[m])
                 IN  Truthy(depId) /\ MapHas(taskMap, depId)}}

\* a variant that starts on the dependency's end date itself
afterDependencies_SameDay(rawTask) ==
    IF Len(rawTask.dependencies) > 0 /\ dependencyEndDates(rawTask) # {}
    THEN dateMax2(rawTask.startDate, dateMax(dependencyEndDates(rawTask)))
    ELSE rawTask.startDate

\* a variant that takes the day after the dependency without the max
afterDependencies_DropRequested(rawTask) ==
    IF Len(rawTask.dependencies) > 0 /\ dependencyEndDates(rawTask) # {}
    THEN addDays(dateMax(dependencyEndDates(rawTask)), 1)
    ELSE rawTask.startDate

afterDependencies(rawTask) ==
    IF Len(rawTask.dependencies) > 0 /\ dependencyEndDates(rawTask) # {}
    THEN dateMax2(rawTask.startDate, addDays(dateMax(dependencyEndDates(rawTask)), 1))
    ELSE rawTask.startDate

\* a variant that starts on the day the resource's last task ends
afterResource_SameDay(rawTask, effectiveStartDate) ==
    IF Truthy(rawTask.resource) /\ MapHas(resourceEndDates, rawTask.resource)
    THEN dateMax2(effectiveStartDate, resourceEndDates[rawTask.resource])
    ELSE effectiveStartDate

\* a variant that looks at the resource only when there is no dependency
afterResource_OnlyWithoutDependencies(rawTask, effectiveStartDate) ==
    IF Len(rawTask.dependencies) = 0
          /\ Truthy(rawTask.resource) /\ MapHas(resourceEndDates, rawTask.resource)
    THEN dateMax2(effectiveStartDate, addDays(resourceEndDates[rawTask.resource], 1))
    ELSE effectiveStartDate

\* a variant that does not consult the ledger
afterResource_Unconstrained(rawTask, effectiveStartDate) == effectiveStartDate

afterResource(rawTask, effectiveStartDate) ==
    IF Truthy(rawTask.resource) /\ MapHas(resourceEndDates, rawTask.resource)
    THEN dateMax2(effectiveStartDate, addDays(resourceEndDates[rawTask.resource], 1))
    ELSE effectiveStartDate

\* a variant that moves a Saturday by one day, like a Sunday
weekendAdjust_SaturdayPlusOne(effectiveStartDate) ==
    LET dayOfWeek == getDay(effectiveStartDate)
    IN  IF dayOfWeek = 0 \/ dayOfWeek = 6 THEN addDays(effectiveStartDate, 1)
        ELSE effectiveStartDate

weekendAdjust(effectiveStartDate) ==
    LET dayOfWeek == getDay(effectiveStartDate)
    IN  IF dayOfWeek = 0 THEN addDays(effectiveStartDate, 1)
        ELSE IF dayOfWeek = 6 THEN addDays(effectiveStartDate, 2)
        ELSE effectiveStartDate

\* a variant that moves the requested date off the weekend first and applies
\* the dependency and resource constraints after that
effectiveStart_SnapFirst(rawTask) ==
    afterResource(rawTask,
                  afterDependencies([rawTask EXCEPT !.startDate = weekendAdjust(@)]))

effectiveStart(rawTask) == weekendAdjust(afterResource(rawTask, afterDependencies(rawTask)))

\* a variant that builds the task field by field and leaves the
\* dependencies out
finalTaskOf_WithoutDependencies(rawTask) ==
    LET effectiveStartDate == effectiveStart(rawTask)
        endDate == addWorkingDays(effectiveStartDate, rawTask.workingDuration)
    IN  [id |-> rawTask.id,
         title |-> rawTask.title,
         startDate |-> effectiveStartDate,
         workingDuration |-> rawTask.workingDuration,
         dependencies |-> <<>>,
         resource |-> rawTask.resource,
         endDate |-> endDate,
         duration |-> getCalendarDuration(effectiveStartDate, endDate)]

\* { ...rawTask, startDate: effectiveStartDate, endDate, duration }
finalTaskOf(rawTask) ==
    LET effectiveStartDate == effectiveStart(rawTask)
        endDate == addWorkingDays(effectiveStartDate, rawTask.workingDuration)
    IN  [id |-> rawTask.id,
         title |-> rawTask.title,
         startDate |-> effectiveStartDate,
         workingDuration |-> rawTask.workingDuration,
         dependencies |-> rawTask.dependencies,
         resource |-> rawTask.resource,
         endDate |-> endDate,
         duration |-> getCalendarDuration(effectiveStartDate, endDate)]

----------------------------------------------------------------------------
(* String comparison (the < of the sort comparator compares UTF-16 code units) *)

CodeUnits(s) ==
    CASE s = "ann"     -> <<97, 110, 110>>
      [] s = "bob"     -> <<98, 111, 98>>
      [] s = "zzzzzz"  -> <<122, 122, 122, 122, 122, 122>>
      [] s = "zoe"     -> <<122, 111, 101>>
      [] s = "~ops"    -> <<126, 111, 112, 115>>
      [] s = "R"       -> <<82>>
      [] OTHER         -> <<>>

RECURSIVE SeqLess(_, _)
SeqLess(a, b) ==
    IF b = <<>> THEN FALSE
    ELSE IF a = <<>> THEN TRUE
    ELSE IF a[1] # b[1] THEN a[1] < b[1]
    ELSE SeqLess(Tail(a), Tail(b))

StrLess(a, b) == SeqLess(CodeUnits(a), CodeUnits(b))

\* a.resource || 'zzzzzz'
resourceKey(t) == IF Truthy(t.resource) THEN t.resource ELSE "zzzzzz"

\* the comparator of orderedTasks.sort: negative, zero or positive
compareTasks(a, b) ==
    IF StrLess(resourceKey(a), resourceKey(b)) THEN -1
    ELSE IF StrLess(resourceKey(b), resourceKey(a)) THEN 1
    ELSE getTime(a.startDate) - getTime(b.startDate)

\* Array.prototype.sort is stable: insert each element after the elements
\* that do not compare greater than it.
\* a variant that keeps one element of each group comparing equal
RECURSIVE InsertSorted_ReplacesEqual(_, _)
InsertSorted_ReplacesEqual(s, t) ==
    IF s = <<>> THEN <<t>>
    ELSE IF compareTasks(t, s[1]) < 0 THEN <<t>> \o s
    ELSE IF compareTasks(t, s[1]) = 0 THEN <<t>> \o Tail(s)
    ELSE <<s[1]>> \o InsertSorted_ReplacesEqual(Tail(s), t)

RECURSIVE InsertSorted(_, _)
InsertSorted(s, t) ==
    IF s = <<>> THEN <<t>>
    ELSE IF compareTasks(t, s[1]) < 0 THEN <<t>> \o s
    ELSE <<s[1]>> \o InsertSorted(Tail(s), t)

RECURSIVE sortTasks(_)
sortTasks(s) ==
    IF s = <<>> THEN <<>>
    ELSE InsertSorted(sortTasks(SubSeq(s, 1, Len(s) - 1)), s[Len(s)])

----------------------------------------------------------------------------
(* The raw task lists parseCsv can hand to processTasks *)

\* parseCsv: id is the id cell when the file has an id column and the cell is
\* not empty, the title otherwise.
rawId(hasIdColumn, idCell, title) ==
    IF hasIdColumn /\ idCell # "" THEN idCell ELSE title

RawTask(id, title, startDate, workingDuration, dependencies, resource) ==
    [id |-> id, title |-> title, startDate |-> startDate,
     workingDuration |-> workingDuration, dependencies |-> dependencies,
     resource |-> resource]

\* Calendar inputs: three tasks A, B, C without an id column (id = title), every
\* requested start date and working duration, over these dependency shapes
\* and resource assignments.
DepShapes ==
    {<< <<>>, <<>>, <<>> >>,              \* independent
     << <<>>, <<"A">>, <<"B">> >>,        \* a chain listed in dependency order
     << <<"B">>, <<"C">>, <<>> >>,        \* a chain listed in reverse order
     << <<>>, <<>>, <<"A", "B">> >>}      \* C waits for A and B

ResourceShapes ==
    {<<Undefined, Undefined, Undefined>>,
     <<"ann", "ann", "ann">>,
     <<"ann", "bob", "ann">>}

CalendarInputs ==
    {<<RawTask("A", "A", s1, d1, p[1], r[1]),
       RawTask("B", "B", s2, d2, p[2], r[2]),
       RawTask("C", "C", s3, d3, p[3], r[3])>> :
        s1 \in StartDays, d1 \in Durations,
        s2 \in StartDays, d2 \in Durations,
        s3 \in StartDays, d3 \in Durations,
        p \in DepShapes, r \in ResourceShapes}

\* Identifier inputs: up to three rows with every dependency list of DepChoices,
\* over these titles and id cells (an empty id cell: the title is the id).
TitleShapes == {<<"A", "B", "C">>, <<"A", "A", "C">>, <<"A", "B", "A">>}

IdColumnShapes ==
    {[hasIdColumn |-> FALSE, cells |-> <<"", "", "">>],
     [hasIdColumn |-> TRUE, cells |-> <<"x", "y", "z">>],
     [hasIdColumn |-> TRUE, cells |-> <<"x", "x", "">>],
     [hasIdColumn |-> TRUE, cells |-> <<"B", "A", "">>]}

DepChoices == {<<>>, <<"A">>, <<"B">>, <<"C">>, <<"x">>, <<"A", "C">>}

IdentifierRows ==
    {<<RawTask(rawId(c.hasIdColumn, c.cells[1], t[1]), t[1], FirstStart + 1, d1, p1, "~ops"),
       RawTask(rawId(c.hasIdColumn, c.cells[2], t[2]), t[2], FirstStart + 1, d2, p2, ""),
       RawTask(rawId(c.hasIdColumn, c.cells[3], t[3]), t[3], FirstStart + 1, d3, p3, "zoe")>> :
        t \in TitleShapes, c \in IdColumnShapes,
        d1 \in Durations, d2 \in Durations, d3 \in Durations,
        p1 \in DepChoices, p2 \in DepChoices, p3 \in DepChoices}

IdentifierInputs == {SubSeq(rows, 1, n) : rows \in IdentifierRows, n \in 0..3}

\* The worked scenario: A from Thursday 2024-08-01 (day 4) for 5 working days;
\* B after A, requested 2024-08-01, 4 days, resource R; C after A, requested
\* 2024-08-08 (day 11), 6 days, resource R.  A's resource is not stated.
\* No time zone changes its UTC offset in these three weeks.
WorkedScenarios ==
    {<<RawTask("A", "A", 4, 5, <<>>, r),
       RawTask("B", "B", 4, 4, <<"A">>, "R"),
       RawTask("C", "C", 11, 6, <<"A">>, "R")>> : r \in {Undefined, "ann", "R"}}

\* Rows of one resource in a file with an id column in which two rows have
\* the same id cell.
SharedResourceInputs ==
    {<<RawTask(rawId(TRUE, "x", "A"), "A", FirstStart + 1, d1, <<>>, "ann"),
       RawTask(rawId(TRUE, "x", "B"), "B", FirstStart + 1, d2, <<>>, "ann"),
       RawTask(rawId(TRUE, "y", "C"), "C", FirstStart + 1, d3, <<>>, "ann")>> :
        d1 \in Durations, d2 \in Durations, d3 \in Durations}

----------------------------------------------------------------------------
(* processTasks, one action per step *)

NoOutcome == [kind |-> "running", message |-> "", task |-> "", dependency |-> "",
              line |-> 0, unprocessed |-> <<>>, tasks |-> <<>>]

NoFile == [name |-> <<>>, rows |-> <<>>, none |-> TRUE]

NoToast == [variant |-> "none", title |-> "", description |-> ""]

\* page.tsx 43-45 and csv-uploader.tsx 25-26: the initial state of the page
EnvInit ==
    /\ tasks = <<>>
    /\ key = 0
    /\ isUploaderOpen = FALSE
    /\ file = NoFile
    /\ projectName = <<>>
    /\ pending = <<>>
    /\ toast = NoToast
    /\ download = NoFile
    /\ event = "none"
    /\ round = 0
    /\ firstResult = <<>>

Init ==
    /\ EnvInit
    /\ \/ rawTasks \in CalendarInputs /\ tz \in TzShifts
       \/ rawTasks \in IdentifierInputs /\ tz = 0
       \/ rawTasks \in WorkedScenarios /\ tz = 0
       \/ rawTasks \in SharedResourceInputs /\ tz = 0
    /\ pc = "validate"
    /\ i = 1
    /\ pass = 0
    /\ changedInPass = TRUE
    /\ processed = {}
    /\ taskMap = EmptyMap
    /\ orderedTasks = <<>>
    /\ resourceEndDates = EmptyMap
    /\ outcome = NoOutcome

\* lines 40-48: a dependency that is no key of rawTaskMap throws
ValidateThrow ==
    /\ UNCHANGED envVars
    /\ pc = "validate"
    /\ MissingPairs # {}
    /\ LET p == FirstMissing
       IN  outcome' = [NoOutcome EXCEPT !.kind = "error",
                           !.message = "dependencyNotFound",
                           !.task = rawTasks[p[1]].title,
                           !.dependency = rawTasks[p[1]].dependencies[p[2]]]
    /\ pc' = "done"
    /\ UNCHANGED <<rawTasks, tz, i, pass, changedInPass, processed, taskMap,
                   orderedTasks, resourceEndDates>>

ValidatePass ==
    /\ UNCHANGED envVars
    /\ pc = "validate"
    /\ MissingPairs = {}
    /\ pc' = "while"
    /\ UNCHANGED <<rawTasks, tz, i, pass, changedInPass, processed, taskMap,
                   orderedTasks, resourceEndDates, outcome>>

\* a variant that does not reset the flag at the start of a pass
PassStart_KeepsChangedInPass ==
    /\ UNCHANGED envVars
    /\ pc = "while"
    /\ Len(orderedTasks) < N /\ changedInPass
    /\ changedInPass' = changedInPass
    /\ i' = 1
    /\ pass' = pass + 1
    /\ pc' = "for"
    /\ UNCHANGED <<rawTasks, tz, processed, taskMap, orderedTasks,
                   resourceEndDates, outcome>>

\* line 53: the while condition holds, a pass over rawTasks starts
PassStart ==
    /\ UNCHANGED envVars
    /\ pc = "while"
    /\ Len(orderedTasks) < N /\ changedInPass
    /\ changedInPass' = FALSE
    /\ i' = 1
    /\ pass' = pass + 1
    /\ pc' = "for"
    /\ UNCHANGED <<rawTasks, tz, processed, taskMap, orderedTasks,
                   resourceEndDates, outcome>>

\* line 53: the while condition fails, the loop ends
LoopExit ==
    /\ UNCHANGED envVars
    /\ pc = "while"
    /\ ~(Len(orderedTasks) < N /\ changedInPass)
    /\ pc' = "check"
    /\ UNCHANGED <<rawTasks, tz, i, pass, changedInPass, processed, taskMap,
                   orderedTasks, resourceEndDates, outcome>>

Advance ==
    /\ i' = i + 1
    /\ pc' = IF i + 1 > N THEN "while" ELSE "for"

\* line 56: the task's id is in processed
VisitProcessed ==
    /\ UNCHANGED envVars
    /\ pc = "for"
    /\ rawTasks[i].id \in processed
    /\ Advance
    /\ UNCHANGED <<rawTasks, tz, pass, changedInPass, processed, taskMap,
                   orderedTasks, resourceEndDates, outcome>>

\* lines 58-63: a dependency is not processed yet
VisitNotReady ==
    /\ UNCHANGED envVars
    /\ pc = "for"
    /\ rawTasks[i].id \notin processed
    /\ ~dependenciesMet(rawTasks[i])
    /\ Advance
    /\ UNCHANGED <<rawTasks, tz, pass, changedInPass, processed, taskMap,
                   orderedTasks, resourceEndDates, outcome>>

\* a variant that assigns the effective start date to the raw record
\* instead of to a copy of it
VisitSchedule_WritesRawTask ==
    /\ UNCHANGED envVars
    /\ pc = "for"
    /\ rawTasks[i].id \notin processed
    /\ dependenciesMet(rawTasks[i])
    /\ LET finalTask == finalTaskOf(rawTasks[i])
       IN  /\ taskMap' = MapSet(taskMap, finalTask.id, finalTask)
           /\ orderedTasks' = Append(orderedTasks, finalTask)
           /\ resourceEndDates' =
                 IF Truthy(finalTask.resource)
                 THEN MapSet(resourceEndDates, finalTask.resource, finalTask.endDate)
                 ELSE resourceEndDates
           /\ processed' = processed \cup {finalTask.id}
           /\ rawTasks' = [rawTasks EXCEPT ![i].startDate = finalTask.startDate]
    /\ changedInPass' = TRUE
    /\ Advance
    /\ UNCHANGED <<tz, pass, outcome>>

\* lines 63-115: the task is scheduled
VisitSchedule ==
    /\ UNCHANGED envVars
    /\ pc = "for"
    /\ rawTasks[i].id \notin processed
    /\ dependenciesMet(rawTasks[i])
    /\ LET finalTask == finalTaskOf(rawTasks[i])
       IN  /\ taskMap' = MapSet(taskMap, finalTask.id, finalTask)
           /\ orderedTasks' = Append(orderedTasks, finalTask)
           /\ resourceEndDates' =
                 IF Truthy(finalTask.resource)
                 THEN MapSet(resourceEndDates, finalTask.resource, finalTask.endDate)
                 ELSE resourceEndDates
           /\ processed' = processed \cup {finalTask.id}
    /\ changedInPass' = TRUE
    /\ Advance
    /\ UNCHANGED <<rawTasks, tz, pass, outcome>>

unprocessedIds ==
    LET keep == {k \in 1..N : rawTasks[k].id \notin processed}
        F[k \in 0..N] ==
            IF k = 0 THEN <<>>
            ELSE IF k \in keep THEN Append(F[k-1], rawTasks[k].id) ELSE F[k-1]
    IN  F[N]

\* a variant that gives back what was scheduled instead of throwing
CheckThrow_ReturnsPartial ==
    /\ UNCHANGED envVars
    /\ pc = "check"
    /\ Len(orderedTasks) < N
    /\ outcome' = [NoOutcome EXCEPT !.kind = "returned",
                       !.tasks = sortTasks(orderedTasks)]
    /\ pc' = "done"
    /\ UNCHANGED <<rawTasks, tz, i, pass, changedInPass, processed, taskMap,
                   orderedTasks, resourceEndDates>>

\* lines 119-122: fewer tasks scheduled than given
CheckThrow ==
    /\ UNCHANGED envVars
    /\ pc = "check"
    /\ Len(orderedTasks) < N
    /\ outcome' = [NoOutcome EXCEPT !.kind = "error",
                       !.message = "circularDependency",
                       !.unprocessed = unprocessedIds]
    /\ pc' = "done"
    /\ UNCHANGED <<rawTasks, tz, i, pass, changedInPass, processed, taskMap,
                   orderedTasks, resourceEndDates>>

\* lines 124-133: sort in place and return
SortAndReturn ==
    /\ UNCHANGED envVars
    /\ pc = "check"
    /\ ~(Len(orderedTasks) < N)
    /\ orderedTasks' = sortTasks(orderedTasks)
    /\ outcome' = [NoOutcome EXCEPT !.kind = "returned",
                       !.tasks = sortTasks(orderedTasks)]
    /\ pc' = "done"
    /\ UNCHANGED <<rawTasks, tz, i, pass, changedInPass, processed, taskMap,
                   resourceEndDates>>

Next ==
    \/ ValidateThrow
    \/ ValidatePass
    \/ PassStart
    \/ LoopExit
    \/ VisitProcessed
    \/ VisitNotReady
    \/ VisitSchedule
    \/ CheckThrow
    \/ SortAndReturn

Spec == Init /\ [][Next]_vars

----------------------------------------------------------------------------
(* Vocabulary of the properties, stated without the operators above *)

Returned == pc = "done" /\ outcome.kind = "returned"

Threw(message) == pc = "done" /\ outcome.kind = "error" /\ outcome.message = message

Resolved == outcome.tasks

IsWeekend(d) == d % 7 \in {0, 6}

WorkingDaysIn(a, b) == Cardinality({x \in a..b : ~IsWeekend(x)})

\* the raw record a resolved task was made from
RawOf(t) == rawTasks[CHOOSE k \in 1..Len(rawTasks) : rawTasks[k].id = t.id]

TitleExists(e) == \E k \in 1..Len(rawTasks) : rawTasks[k].title = e

IdExists(e) == \E k \in 1..Len(rawTasks) : rawTasks[k].id = e

\* the row a dependency entry refers to: the last row with that title
LastWithTitle(e) ==
    CHOOSE k \in 1..Len(rawTasks) :
        /\ rawTasks[k].title = e
        /\ \A m \in 1..Len(rawTasks) : rawTasks[m].title = e => m <= k

ResolvedWithId(id) == CHOOSE u \in Range(Resolved) : u.id = id

Entries(t) == Range(t.dependencies)

----------------------------------------------------------------------------
(* C1: on success, no resolved task starts on a Saturday or a Sunday *)

C1_StartNeverWeekend ==
    Returned => \A t \in Range(Resolved) : ~IsWeekend(t.startDate)

\* a run that succeeded with a requested start on a weekend and a task
\* pushed past its requested start by a dependency or its resource
C1_Witness ==
    /\ Returned
    /\ \E t \in Range(Resolved) : IsWeekend(RawOf(t).startDate)
    /\ \E t \in Range(Resolved) :
          /\ ~IsWeekend(RawOf(t).startDate)
          /\ t.startDate >= RawOf(t).startDate + 3

(* C2: on success, a task with dependencies starts strictly after the end   *)
(* date of every task it depends on                                         *)

C2_StartAfterDependencies ==
    Returned =>
        \A t \in Range(Resolved) : \A e \in Entries(t) :
            /\ TitleExists(e)
            /\ t.startDate > ResolvedWithId(rawTasks[LastWithTitle(e)].id).endDate
            /\ t.startDate >= ResolvedWithId(rawTasks[LastWithTitle(e)].id).endDate + 1

\* a task with two dependencies, requested no later than a dependency's end
C2_Witness ==
    /\ Returned
    /\ \E t \in Range(Resolved) :
          /\ Len(t.dependencies) = 2
          /\ \E e \in Entries(t) :
                RawOf(t).startDate <= ResolvedWithId(rawTasks[LastWithTitle(e)].id).endDate

(* C3: two tasks with the same non-empty resource never overlap: the one    *)
(* processed later starts strictly after the end date of the earlier one    *)

SameResource(a, b) == a.resource = b.resource /\ a.resource # "" /\ a.resource # Undefined

C3_ResourceIntervalsDisjoint ==
    /\ pc # "done" =>
          \A k \in 1..Len(orderedTasks) : \A m \in (k+1)..Len(orderedTasks) :
              SameResource(orderedTasks[k], orderedTasks[m])
                  => orderedTasks[m].startDate > orderedTasks[k].endDate
    /\ Returned =>
          \A k \in 1..Len(Resolved) : \A m \in 1..Len(Resolved) :
              (k # m /\ SameResource(Resolved[k], Resolved[m]))
                  => \/ Resolved[m].startDate > Resolved[k].endDate
                     \/ Resolved[k].startDate > Resolved[m].endDate

\* three tasks on one resource, the later ones requested while it is busy
C3_Witness ==
    /\ Returned
    /\ Len(Resolved) = 3
    /\ \A k \in 1..3 : \A m \in 1..3 :
          /\ SameResource(Resolved[k], Resolved[m])
          /\ RawOf(Resolved[k]).startDate <= Resolved[1].endDate

(* C4: on success, every task starts on or after its requested start date *)

C4_StartNotBeforeRequested ==
    Returned => \A t \in Range(Resolved) : t.startDate >= RawOf(t).startDate

\* a task requested later than the day after its dependency ends
C4_Witness ==
    /\ Returned
    /\ \E t \in Range(Resolved) : \E e \in Entries(t) :
          RawOf(t).startDate > ResolvedWithId(rawTasks[LastWithTitle(e)].id).endDate + 1

(* C5: the calendar duration of a resolved task is the number of days from  *)
(* its start to its end plus one, and a task of one working day ends on its *)
(* start date                                                               *)

C5_CalendarDuration ==
    Returned =>
        \A t \in Range(Resolved) :
            /\ t.duration = (t.endDate - t.startDate) + 1
            /\ t.workingDuration = 1 => t.endDate = t.startDate

(* C6: the end date is the d-th working day counted from the start: the     *)
(* interval holds exactly d Monday-Friday dates and ends on one             *)

C6_SpansWorkingDuration ==
    Returned =>
        \A t \in Range(Resolved) :
            t.workingDuration >= 1 =>
                /\ WorkingDaysIn(t.startDate, t.endDate) = t.workingDuration
                /\ ~IsWeekend(t.endDate)
                /\ t.endDate >= t.startDate

\* a task whose working days lie on both sides of a weekend
C6_Witness ==
    /\ Returned
    /\ \E t \in Range(Resolved) :
          /\ t.workingDuration >= 2
          /\ t.endDate - t.startDate + 1 > t.workingDuration

----------------------------------------------------------------------------
(* The dependency graph of the input: row k points to the row each of its   *)
(* dependency entries refers to                                             *)

Rows == 1..Len(rawTasks)

DependsOn(k) ==
    {LastWithTitle(e) : e \in {x \in Range(rawTasks[k].dependencies) : TitleExists(x)}}

RECURSIVE Closure(_, _)
Closure(S, n) ==
    IF n = 0 THEN S ELSE Closure(S \cup UNION {DependsOn(k) : k \in S}, n - 1)

\* the rows reachable from k in one step or more
Ancestors(k) == Closure(DependsOn(k), Len(rawTasks))

OnCycle(k) == k \in Ancestors(k)

HasCycle == \E k \in Rows : OnCycle(k)

\* the rows on a cycle and the rows that depend on one, directly or not
Stuck == {k \in Rows : OnCycle(k) \/ \E m \in Ancestors(k) : OnCycle(m)}

RECURSIVE IdsInOrder(_, _)
IdsInOrder(S, k) ==
    IF k > Len(rawTasks) THEN <<>>
    ELSE (IF k \in S THEN <<rawTasks[k].id>> ELSE <<>>) \o IdsInOrder(S, k + 1)

\* the dependency entries that are the title of no row
UnknownRefs ==
    UNION {{<<k, j>> : j \in {m \in DOMAIN rawTasks[k].dependencies :
                                   ~TitleExists(rawTasks[k].dependencies[m])}} :
           k \in Rows}

AllRefsExist == \A k \in Rows : \A e \in Range(rawTasks[k].dependencies) : TitleExists(e)

(* C7: an input with a dependency cycle (all references existing) fails     *)
(* with the circular-dependency error, and the ids reported are exactly     *)
(* those of the rows on a cycle or depending on one, the rows left          *)
(* unresolved                                                               *)

C7_CycleReported ==
    (pc = "done" /\ AllRefsExist /\ HasCycle) =>
        /\ Threw("circularDependency")
        /\ outcome.unprocessed = IdsInOrder(Stuck, 1)
        /\ Len(orderedTasks) + Cardinality(Stuck) = Len(rawTasks)

(* C8: the circular-dependency error is raised only when a cycle exists: an *)
(* acyclic input whose references all exist is resolved completely          *)

C8_AcyclicResolves ==
    /\ (pc = "done" /\ AllRefsExist /\ ~HasCycle) =>
          (Returned /\ Len(Resolved) = Len(rawTasks))
    /\ Threw("circularDependency") => HasCycle

(* C9: a reference to a dependency no row has fails with the                *)
(* unknown-dependency error naming the first such task and entry, before    *)
(* anything is scheduled, also when the input has a cycle as well           *)

C9_UnknownDependencyFirst ==
    UnknownRefs # {} =>
        /\ pc \in {"validate", "done"}
        /\ processed = {} /\ orderedTasks = <<>>
        /\ DOMAIN taskMap = {} /\ DOMAIN resourceEndDates = {}
        /\ pc = "done" =>
              /\ Threw("dependencyNotFound")
              /\ outcome.tasks = <<>>
              /\ \E p \in UnknownRefs :
                    /\ \A q \in UnknownRefs :
                          p[1] < q[1] \/ (p[1] = q[1] /\ p[2] <= q[2])
                    /\ outcome.task = rawTasks[p[1]].title
                    /\ outcome.dependency = rawTasks[p[1]].dependencies[p[2]]

\* the unknown entry is the second of its list, the input has a cycle too,
\* and a row without dependencies was there to be scheduled
C9_Witness ==
    /\ Threw("dependencyNotFound")
    /\ HasCycle
    /\ \E p \in UnknownRefs : p[2] = 2
    /\ \E k \in Rows : rawTasks[k].dependencies = <<>>

(* C10, as claimed: dependencies are matched against ids; entries that are  *)
(* all ids of rows pass the pre-check, and each constrains the dependent    *)
(* task on the task with that id                                            *)

C12_CompleteOrNothing ==
    /\ pc # "done" => (outcome.kind = "running" /\ Resolved = <<>>)
    /\ pc = "done" =>
          \/ /\ outcome.kind = "returned"
             /\ Len(Resolved) = Len(rawTasks)
             /\ \A k \in Rows : \E m \in 1..Len(Resolved) : Resolved[m].id = rawTasks[k].id
          \/ /\ outcome.kind = "error"
             /\ outcome.message \in {"dependencyNotFound", "circularDependency"}
             /\ Resolved = <<>>

\* the cycle check failed after two of the three tasks had been scheduled
C12_Witness ==
    /\ Threw("circularDependency")
    /\ HasCycle
    /\ Len(rawTasks) = 3
    /\ Len(orderedTasks) = 2
    /\ Resolved = <<>>

(* C14: the returned list is ordered by resource name ascending, every     *)
(* task with a resource comes before every task without one, whatever the  *)
(* names are, and tasks of one resource are in ascending order of start     *)

HasResource(t) == t.resource # "" /\ t.resource # Undefined

C14_SortedByResourceThenStart ==
    Returned =>
        \A k \in 1..Len(Resolved) : \A m \in (k+1)..Len(Resolved) :
            /\ HasResource(Resolved[m]) => HasResource(Resolved[k])
            /\ (HasResource(Resolved[k]) /\ HasResource(Resolved[m]))
                  => ~StrLess(Resolved[m].resource, Resolved[k].resource)
            /\ SameResource(Resolved[k], Resolved[m])
                  => Resolved[k].startDate <= Resolved[m].startDate

(* C15: the worked scenario resolves to A = [2024-08-01, 2024-08-07] with  *)
(* calendar duration 7, B = [2024-08-08, 2024-08-13] with 6 and             *)
(* C = [2024-08-14, 2024-08-21] with 8 (day 4 is 2024-08-01): C waits for   *)
(* its resource, one day after B ends, not only for A                       *)

C15_WorkedScenario ==
    (rawTasks \in WorkedScenarios /\ pc = "done") =>
        /\ Returned
        /\ Len(Resolved) = 3
        /\ \A t \in Range(Resolved) :
              /\ t.id = "A" => (t.startDate = 4 /\ t.endDate = 10 /\ t.duration = 7)
              /\ t.id = "B" => (t.startDate = 11 /\ t.endDate = 16 /\ t.duration = 6)
              /\ t.id = "C" => (t.startDate = 17 /\ t.endDate = 24 /\ t.duration = 8)
        /\ {t.id : t \in Range(Resolved)} = {"A", "B", "C"}

\* the scenario was resolved, and C started later than the day after A ended
C15_Witness ==
    /\ rawTasks \in WorkedScenarios
    /\ Returned
    /\ \E a \in Range(Resolved) : \E c \in Range(Resolved) :
          a.id = "A" /\ c.id = "C" /\ c.startDate > a.endDate + 1

(* C16: tasks are scheduled in a topological order of the dependency       *)
(* graph: when a task is scheduled, every task it depends on has been       *)
(* scheduled before it and has an end date                                  *)

\* u is the scheduled form of row k
ScheduledFrom(u, k) ==
    /\ u.id = rawTasks[k].id
    /\ u.title = rawTasks[k].title
    /\ u.workingDuration = rawTasks[k].workingDuration
    /\ u.dependencies = rawTasks[k].dependencies
    /\ u.resource = rawTasks[k].resource

\* orderedTasks is in scheduling order until the final sort
InSchedulingOrder == pc # "done" \/ outcome.kind = "error"

C16_TopologicalOrder ==
    InSchedulingOrder =>
        \A m \in 1..Len(orderedTasks) : \A e \in Entries(orderedTasks[m]) :
            /\ TitleExists(e)
            /\ \E k \in 1..(m-1) :
                  /\ ScheduledFrom(orderedTasks[k], LastWithTitle(e))
                  /\ orderedTasks[k].endDate \in Int

(* C17: no step of a run changes the raw task list: its order and every    *)
(* record's id, title, start date, working duration, dependencies and      *)
(* resource stay as given, in runs that succeed and in runs that fail      *)

C17_RawTasksUnchanged ==
    [][/\ Len(rawTasks') = Len(rawTasks)
       /\ \A k \in 1..Len(rawTasks) :
             /\ rawTasks'[k].id = rawTasks[k].id
             /\ rawTasks'[k].title = rawTasks[k].title
             /\ rawTasks'[k].startDate = rawTasks[k].startDate
             /\ rawTasks'[k].workingDuration = rawTasks[k].workingDuration
             /\ rawTasks'[k].dependencies = rawTasks[k].dependencies
             /\ rawTasks'[k].resource = rawTasks[k].resource]_vars

\* a run that gave a task another start date than requested and returned
\* the tasks in another order than given
C17_Witness ==
    /\ Returned
    /\ Len(Resolved) = 3
    /\ Resolved[1].id # rawTasks[1].id
    /\ \E t \in Range(Resolved) : t.startDate # RawOf(t).startDate

(* C18: the loop terminates, for cyclic inputs too: over n tasks at most   *)
(* n + 1 passes are made, every pass but the last one schedules a task, a   *)
(* pass that schedules nothing is the last one, every step of a run brings  *)
(* its end nearer and the for-loop stays within the list                    *)

\* an upper bound of the number of steps a run still makes
StepsLeft ==
    CASE pc = "validate" -> (Len(rawTasks) + 2) * (Len(rawTasks) + 2) + 3
      [] pc = "while"    -> (Len(rawTasks) + 1 - pass) * (Len(rawTasks) + 2) + 2
      [] pc = "for"      -> (Len(rawTasks) + 1 - pass) * (Len(rawTasks) + 2) + 2
                               + (Len(rawTasks) - i + 1)
      [] pc = "check"    -> 1
      [] OTHER           -> 0

C18_Terminates ==
    /\ [](pass <= Len(rawTasks) + 1)
    /\ [](pass <= Len(orderedTasks) + 1)
    /\ [][(pc = "while" /\ pass >= 1 /\ pass > Len(orderedTasks)) => pc' = "check"]_vars
    /\ [](StepsLeft >= 0)
    /\ [][StepsLeft' < StepsLeft]_vars
    /\ [](pc = "for" => i \in 1..Len(rawTasks))

\* a run over a cycle that ended after a pass that scheduled a task and a
\* pass that scheduled none
C18_Witness ==
    /\ Threw("circularDependency")
    /\ HasCycle
    /\ pass = 2
    /\ Len(orderedTasks) = 1

(* C19: the effective start of a task is exactly the earliest              *)
(* Monday-Friday date that is on or after its requested start, after the    *)
(* latest end date of its dependencies and after the end date the ledger    *)
(* held for its resource when the task was scheduled (the end of the last   *)
(* task of that resource scheduled before it)                               *)

\* every task has been scheduled and the list is still in scheduling order
AllScheduled == pc = "check" /\ Len(orderedTasks) = Len(rawTasks)

ScheduledWithId(id) == CHOOSE u \in Range(orderedTasks) : u.id = id

\* the dates the task at position m had to start after
MustFollow(m) ==
    {ScheduledWithId(rawTasks[LastWithTitle(e)].id).endDate : e \in Entries(orderedTasks[m])}
    \cup {orderedTasks[k].endDate :
            k \in {n \in 1..(m-1) :
                     /\ SameResource(orderedTasks[n], orderedTasks[m])
                     /\ \A q \in (n+1)..(m-1) :
                           ~SameResource(orderedTasks[q], orderedTasks[m])}}

\* the first date that is on or after the requested start and after these
EarliestAllowed(m) ==
    CHOOSE d \in {RawOf(orderedTasks[m]).startDate} \cup {x + 1 : x \in MustFollow(m)} :
        /\ d >= RawOf(orderedTasks[m]).startDate
        /\ \A x \in MustFollow(m) : d > x

C19_EarliestWorkingDay ==
    AllScheduled =>
        \A m \in 1..Len(orderedTasks) :
            /\ ~IsWeekend(orderedTasks[m].startDate)
            /\ orderedTasks[m].startDate >= EarliestAllowed(m)
            /\ \A d \in EarliestAllowed(m)..(orderedTasks[m].startDate - 1) : IsWeekend(d)

\* a task with a resource and two dependencies, requested on a working day,
\* whose constraints end on a Friday: it starts on the Monday
C19_Witness ==
    /\ AllScheduled
    /\ \E m \in 1..Len(orderedTasks) :
          /\ Len(orderedTasks[m].dependencies) = 2
          /\ HasResource(orderedTasks[m])
          /\ ~IsWeekend(RawOf(orderedTasks[m]).startDate)
          /\ EarliestAllowed(m) > RawOf(orderedTasks[m]).startDate
          /\ EarliestAllowed(m) % 7 = 6
          /\ orderedTasks[m].startDate = EarliestAllowed(m) + 2

----------------------------------------------------------------------------
(* C21: a task that is visited when every task it depends on has been      *)
(* scheduled, in an earlier pass or earlier in the same pass, is scheduled  *)
(* at that visit; so a list in dependency order is scheduled completely in  *)
(* one pass, in the order of the list                                       *)

\* row k has been scheduled
RowScheduled(k) == \E m \in 1..Len(orderedTasks) : ScheduledFrom(orderedTasks[m], k)

\* every dependency entry of row k names a row that has been scheduled
DependenciesScheduled(k) ==
    \A e \in Range(rawTasks[k].dependencies) :
        TitleExists(e) /\ RowScheduled(LastWithTitle(e))

\* every dependency entry names a row listed before the row that has it
InDependencyOrder ==
    \A k \in Rows : \A e \in Range(rawTasks[k].dependencies) :
        TitleExists(e) /\ LastWithTitle(e) < k

C21_ScheduledWhenVisited ==
    /\ [][(pc = "for" /\ ~RowScheduled(i) /\ DependenciesScheduled(i))
            => /\ Len(orderedTasks') = Len(orderedTasks) + 1
               /\ ScheduledFrom(orderedTasks'[Len(orderedTasks')], i)]_vars
    /\ []((InDependencyOrder /\ pc = "check")
            => /\ pass <= 1
               /\ Len(orderedTasks) = Len(rawTasks)
               /\ \A k \in Rows : ScheduledFrom(orderedTasks[k], k))

(* C22: of two tasks of one resource that are both ready in a pass, the    *)
(* one listed first is scheduled first and has the earlier interval: when   *)
(* a task is scheduled, a task of its resource listed before it that is     *)
(* still unscheduled was not ready when the pass began (it waits for a task *)
(* that is unscheduled or that was scheduled after its own visit)           *)

C22_FirstListedFirst ==
    /\ [][(pc = "for" /\ Len(orderedTasks') = Len(orderedTasks) + 1)
            => \A k \in 1..(i-1) :
                  (SameResource(rawTasks[k], rawTasks[i]) /\ ~RowScheduled(k))
                      => \E e \in Range(rawTasks[k].dependencies) :
                            \/ ~TitleExists(e)
                            \/ ~RowScheduled(LastWithTitle(e))
                            \/ LastWithTitle(e) \in (k+1)..(i-1)]_vars
    /\ [](InSchedulingOrder =>
            \A a \in 1..Len(orderedTasks) : \A b \in (a+1)..Len(orderedTasks) :
                SameResource(orderedTasks[a], orderedTasks[b])
                    => orderedTasks[b].startDate > orderedTasks[a].endDate)

(* C23: the ledger holds, for a resource, the end date of the task of that *)
(* resource scheduled most recently, and nothing for a resource no          *)
(* scheduled task has: this is the value consulted when the next task of    *)
(* the resource is scheduled, each commit having replaced the one before    *)

\* the positions in orderedTasks of the tasks of resource r
PositionsOf(r) == {m \in 1..Len(orderedTasks) : orderedTasks[m].resource = r}

LastPositionOf(r) == CHOOSE m \in PositionsOf(r) : \A n \in PositionsOf(r) : n <= m

C23_LedgerIsLatestCommit ==
    InSchedulingOrder =>
        /\ DOMAIN resourceEndDates =
              {orderedTasks[m].resource :
                  m \in {n \in 1..Len(orderedTasks) : HasResource(orderedTasks[n])}}
        /\ \A r \in DOMAIN resourceEndDates :
              resourceEndDates[r] = orderedTasks[LastPositionOf(r)].endDate

\* three tasks of one resource were scheduled and the ledger holds the end
\* date of the third, the first two having been replaced
C23_Witness ==
    /\ InSchedulingOrder
    /\ Len(orderedTasks) = 3
    /\ \A m \in 1..3 : orderedTasks[m].resource = "ann"
    /\ resourceEndDates["ann"] = orderedTasks[3].endDate
    /\ orderedTasks[1].endDate < orderedTasks[2].endDate
    /\ orderedTasks[2].endDate < orderedTasks[3].endDate

(* C24: scheduling a task without a resource (absent or empty) leaves the  *)
(* ledger as it is, and the task's start is the one its requested start and *)
(* its dependencies alone give; scheduling a task of resource r sets the    *)
(* entry of r and leaves every other entry as it is                         *)

\* the first Monday-Friday date on or after d
FirstWorkingDayFrom(d) == CHOOSE x \in d..(d + 2) : ~IsWeekend(x) /\ \A y \in d..(x - 1) : IsWeekend(y)

\* the end dates of the scheduled tasks that the entries of row k refer to
ScheduledEndsFor(k) ==
    {orderedTasks[m].endDate :
        m \in {n \in 1..Len(orderedTasks) :
                 \E e \in Range(rawTasks[k].dependencies) :
                     TitleExists(e) /\ orderedTasks[n].id = rawTasks[LastWithTitle(e)].id}}

\* the start that the requested date and the dependencies of row k give
StartWithoutLedger(k) ==
    FirstWorkingDayFrom(CHOOSE d \in {rawTasks[k].startDate} \cup {x + 1 : x \in ScheduledEndsFor(k)} :
                         /\ d >= rawTasks[k].startDate
                         /\ \A x \in ScheduledEndsFor(k) : d > x)

C24_LedgerFrame ==
    [][(pc = "for" /\ Len(orderedTasks') = Len(orderedTasks) + 1) =>
          /\ ~HasResource(rawTasks[i]) =>
                /\ resourceEndDates' = resourceEndDates
                /\ orderedTasks'[Len(orderedTasks')].startDate = StartWithoutLedger(i)
          /\ HasResource(rawTasks[i]) =>
                /\ DOMAIN resourceEndDates' = DOMAIN resourceEndDates \cup {rawTasks[i].resource}
                /\ resourceEndDates'[rawTasks[i].resource] = orderedTasks'[Len(orderedTasks')].endDate
                /\ \A r \in DOMAIN resourceEndDates :
                      r # rawTasks[i].resource => resourceEndDates'[r] = resourceEndDates[r]]_vars

\* a task with an empty resource was scheduled while the ledger had an
\* entry, with an end date that would have moved it, and the entry is as it was
C24_Witness ==
    /\ InSchedulingOrder
    /\ Len(orderedTasks) = 2
    /\ HasResource(orderedTasks[1])
    /\ orderedTasks[2].resource = ""
    /\ orderedTasks[2].dependencies = <<>>
    /\ orderedTasks[2].startDate <= orderedTasks[1].endDate
    /\ DOMAIN resourceEndDates = {orderedTasks[1].resource}
    /\ resourceEndDates[orderedTasks[1].resource] = orderedTasks[1].endDate

(* C25, as claimed: a resolved task carries every field of its raw record  *)
(* unchanged, the requested start date among them, and has the effective    *)
(* start date, the end date and the calendar duration in addition           *)

C25_CarriesAllRawFields ==
    Returned =>
        \A t \in Range(Resolved) :
            /\ t.id = RawOf(t).id
            /\ t.title = RawOf(t).title
            /\ t.startDate = RawOf(t).startDate
            /\ t.workingDuration = RawOf(t).workingDuration
            /\ t.dependencies = RawOf(t).dependencies
            /\ t.resource = RawOf(t).resource
            /\ {"endDate", "duration"} \subseteq DOMAIN t

(* C25, amended: a resolved task carries the id, title, working duration,   *)
(* dependencies and resource of its raw record unchanged; its startDate is  *)
(* the effective start date, which replaces the requested one (no field     *)
(* keeps it), and it has the end date and the calendar duration in addition *)

C25_CarriesRawFieldsButStart ==
    Returned =>
        \A t \in Range(Resolved) :
            /\ DOMAIN t = {"id", "title", "startDate", "workingDuration",
                           "dependencies", "resource", "endDate", "duration"}
            /\ t.id = RawOf(t).id
            /\ t.title = RawOf(t).title
            /\ t.workingDuration = RawOf(t).workingDuration
            /\ t.dependencies = RawOf(t).dependencies
            /\ t.resource = RawOf(t).resource
            /\ t.startDate >= RawOf(t).startDate
            /\ ~IsWeekend(t.startDate)
            /\ t.endDate >= t.startDate
            /\ t.duration >= 1

\* a resolved task with dependencies and a resource whose start date is
\* later than the one requested
C25_Witness ==
    /\ Returned
    /\ \E t \in Range(Resolved) :
          /\ t.startDate > RawOf(t).startDate
          /\ Len(t.dependencies) = 2
          /\ HasResource(t)

(* C27: the ledger value of a resource never decreases: a commit writes an *)
(* end date later than the one it replaces, so the value is always the      *)
(* latest end date of all scheduled tasks of the resource                   *)

C27_LedgerNeverDecreases ==
    /\ [][\A r \in DOMAIN resourceEndDates :
            /\ r \in DOMAIN resourceEndDates'
            /\ \/ resourceEndDates'[r] = resourceEndDates[r]
               \/ /\ resourceEndDates'[r] > resourceEndDates[r]
                  /\ Len(orderedTasks') = Len(orderedTasks) + 1
                  /\ orderedTasks'[Len(orderedTasks')].resource = r]_vars
    /\ [](\A r \in DOMAIN resourceEndDates :
            /\ PositionsOf(r) # {}
            /\ \A m \in PositionsOf(r) : orderedTasks[m].endDate <= resourceEndDates[r]
            /\ \E m \in PositionsOf(r) : orderedTasks[m].endDate = resourceEndDates[r])

\* the ledger value of ann is the end date of the third task scheduled, which
\* was requested no later than the end of ann's first task
C27_Witness ==
    /\ InSchedulingOrder
    /\ Len(orderedTasks) = 3
    /\ orderedTasks[1].resource = "ann"
    /\ orderedTasks[2].resource = "bob"
    /\ orderedTasks[3].resource = "ann"
    /\ RawOf(orderedTasks[3]).startDate <= orderedTasks[1].endDate
    /\ resourceEndDates["ann"] = orderedTasks[3].endDate
    /\ resourceEndDates["ann"] > orderedTasks[1].endDate

(* C28: on success the returned list has as many tasks as the raw list and *)
(* every raw task appears in it exactly once; a scheduled task's record,    *)
(* start and end date included, is never changed by a later step            *)

PositionsFrom(list, k) == {m \in 1..Len(list) : ScheduledFrom(list[m], k)}

C28_RearrangementOfInput ==
    /\ [](Returned =>
            /\ Len(Resolved) = Len(rawTasks)
            /\ \A k \in Rows : Cardinality(PositionsFrom(Resolved, k)) = 1
            /\ \A m \in 1..Len(Resolved) :
                  \E k \in Rows : ScheduledFrom(Resolved[m], k))
    /\ [][/\ \A m \in 1..Len(orderedTasks) :
              \E n \in 1..Len(orderedTasks') : orderedTasks'[n] = orderedTasks[m]
          /\ \A id \in DOMAIN taskMap :
              id \in DOMAIN taskMap' /\ taskMap'[id] = taskMap[id]
          /\ Len(orderedTasks') \in {Len(orderedTasks), Len(orderedTasks) + 1}]_vars

\* three tasks returned in another order than given, two of them comparing
\* equal in the final sort
C28_Witness ==
    /\ Returned
    /\ Len(rawTasks) = 3
    /\ ScheduledFrom(Resolved[1], 3)
    /\ \E m \in 1..2 : compareTasks(Resolved[m], Resolved[m + 1]) = 0

----------------------------------------------------------------------------
(* Callers of the exported functions.  parseCsv rejects a duration cell that *)
(* is not positive before it calls processTasks; processTasks and           *)
(* addWorkingDays are exported and take any number as a duration and any    *)
(* Date as a start, so a caller other than parseCsv can pass a duration     *)
(* below 1 or call addWorkingDays with a weekend date.                      *)

DirectStarts == FirstStart .. (FirstStart + 6)        \* every day of the week

DirectDurations == (0 - MaxDur) .. (MaxDur + 4)

DirectRows ==
    {<<RawTask("A", "A", s1, d1, p1, Undefined),
       RawTask("B", "B", FirstStart, d2, p2, Undefined)>> :
        s1 \in DirectStarts, d1 \in DirectDurations, d2 \in DirectDurations,
        p1 \in {<<>>, <<"B">>, <<"x">>}, p2 \in {<<>>, <<"A">>}}

DirectInputs == {SubSeq(rows, 1, n) : rows \in DirectRows, n \in 1..2}

\* Z without a resource, T waiting for Z and U, both of resource ann
MixedResourceInputs ==
    {<<RawTask("Z", "Z", s1, d1, <<>>, Undefined),
       RawTask("T", "T", FirstStart, d2, <<"Z">>, "ann"),
       RawTask("U", "U", FirstStart, d3, <<>>, "ann")>> :
        s1 \in StartDays, d1 \in Durations, d2 \in Durations, d3 \in Durations}

\* pc = "parse": the rows come from a CSV file, rawTasks[k].workingDuration
\* being parseInt of the duration cell of line k + 1 (line 1 is the header);
\* pc = "validate": processTasks is called with the list as it is;
\* pc = "call": addWorkingDays is called with the start date and the duration
\* of the only row.
DirectInit ==
    /\ EnvInit
    /\ rawTasks \in DirectInputs \cup MixedResourceInputs
    /\ tz = 0
    /\ pc \in {"parse", "validate", "call"}
    /\ pc = "call" => Len(rawTasks) = 1
    /\ i = 1
    /\ pass = 0
    /\ changedInPass = TRUE
    /\ processed = {}
    /\ taskMap = EmptyMap
    /\ orderedTasks = <<>>
    /\ resourceEndDates = EmptyMap
    /\ outcome = NoOutcome

\* csv-uploader.tsx 104-107: lines.map throws at the first line whose
\* duration is not positive
ParseThrow ==
    /\ UNCHANGED envVars
    /\ pc = "parse"
    /\ \E k \in 1..N : rawTasks[k].workingDuration <= 0
    /\ LET k == CHOOSE m \in 1..N :
                    /\ rawTasks[m].workingDuration <= 0
                    /\ \A n \in 1..(m-1) : ~(rawTasks[n].workingDuration <= 0)
       IN  outcome' = [NoOutcome EXCEPT !.kind = "error",
                           !.message = "invalidDuration",
                           !.line = k + 1]
    /\ pc' = "done"
    /\ UNCHANGED <<rawTasks, tz, i, pass, changedInPass, processed, taskMap,
                   orderedTasks, resourceEndDates>>

\* csv-uploader.tsx 121: every line passed, processTasks(rawTasks) is called
ParsePass ==
    /\ UNCHANGED envVars
    /\ pc = "parse"
    /\ \A k \in 1..N : ~(rawTasks[k].workingDuration <= 0)
    /\ pc' = "validate"
    /\ UNCHANGED <<rawTasks, tz, i, pass, changedInPass, processed, taskMap,
                   orderedTasks, resourceEndDates, outcome>>

\* addWorkingDays(startDate, duration) called on its own: the outcome is the
\* date returned, kept with the two arguments
AddWorkingDaysCall ==
    /\ UNCHANGED envVars
    /\ pc = "call"
    /\ outcome' = [NoOutcome EXCEPT !.kind = "date",
                       !.tasks = <<[startDate |-> rawTasks[1].startDate,
                                    workingDuration |-> rawTasks[1].workingDuration,
                                    endDate |-> addWorkingDays(rawTasks[1].startDate,
                                                               rawTasks[1].workingDuration)]>>]
    /\ pc' = "done"
    /\ UNCHANGED <<rawTasks, tz, i, pass, changedInPass, processed, taskMap,
                   orderedTasks, resourceEndDates>>

\* a caller passes the list processTasks returned to processTasks again: a
\* Task is a RawTask (types.ts 11-14) whose startDate is the effective start
Rerun ==
    /\ pc = "done"
    /\ outcome.kind = "returned"
    /\ round = 0
    /\ rawTasks' = outcome.tasks
    /\ firstResult' = outcome.tasks
    /\ round' = round + 1
    /\ pc' = "validate"
    /\ i' = 1
    /\ pass' = 0
    /\ changedInPass' = TRUE
    /\ processed' = {}
    /\ taskMap' = EmptyMap
    /\ orderedTasks' = <<>>
    /\ resourceEndDates' = EmptyMap
    /\ outcome' = NoOutcome
    /\ UNCHANGED <<tz, uiVars>>

DirectNext ==
    \/ ParseThrow
    \/ ParsePass
    \/ AddWorkingDaysCall
    \/ Rerun
    \/ Next

DirectSpec == DirectInit /\ [][DirectNext]_vars

(* C11: a run over tasks of which one has workingDuration <= 0 ends with    *)
(* the invalid-duration error identifying that task (by its id or by its    *)
(* line), and addWorkingDays with a duration below 1 reports the error      *)
(* instead of returning a date                                              *)

C11_InvalidDurationReported ==
    (pc = "done" /\ \E k \in Rows : rawTasks[k].workingDuration <= 0) =>
        /\ outcome.kind = "error"
        /\ outcome.message = "invalidDuration"
        /\ \E k \in Rows :
              /\ rawTasks[k].workingDuration <= 0
              /\ outcome.task = rawTasks[k].id \/ outcome.line = k + 1

(* C20: for every start date, weekend or not, and every duration >= 1,      *)
(* addWorkingDays returns the date reached by stepping forward a day at a   *)
(* time until duration - 1 Monday-Friday dates have been passed: start      *)
(* itself for duration 1, never a date before start                         *)

DateReturned == pc = "done" /\ outcome.kind = "date"

C20_AddWorkingDays ==
    (DateReturned /\ outcome.tasks[1].workingDuration >= 1) =>
        /\ outcome.tasks[1].endDate >= outcome.tasks[1].startDate
        /\ outcome.tasks[1].workingDuration = 1
              => outcome.tasks[1].endDate = outcome.tasks[1].startDate
        /\ WorkingDaysIn(outcome.tasks[1].startDate + 1, outcome.tasks[1].endDate)
              = outcome.tasks[1].workingDuration - 1
        /\ outcome.tasks[1].workingDuration > 1 => ~IsWeekend(outcome.tasks[1].endDate)

\* a call with a Saturday and a duration that reaches into the second week
C20_Witness ==
    /\ DateReturned
    /\ outcome.tasks[1].startDate % 7 = 6
    /\ outcome.tasks[1].workingDuration = 6
    /\ outcome.tasks[1].endDate = outcome.tasks[1].startDate + 6

(* C29: processTasks run on the list it returned, in the order returned     *)
(* and with each startDate the effective start it assigned, returns the     *)
(* same start date and end date for every task                              *)

C29_FixedPoint ==
    (pc = "done" /\ round = 1) =>
        /\ outcome.kind = "returned"
        /\ \A m \in 1..Len(firstResult) :
              \E n \in 1..Len(Resolved) :
                  /\ Resolved[n].id = firstResult[m].id
                  /\ Resolved[n].startDate = firstResult[m].startDate
                  /\ Resolved[n].endDate = firstResult[m].endDate

----------------------------------------------------------------------------
(* The page: the uploader sheet (csv-uploader.tsx), the chart's task list  *)
(* and Export CSV (page.tsx).  A file name and the project name are         *)
(* sequences of characters.                                                 *)

LowerCase == <<"a", "b", "c", "d", "e", "f", "g", "h", "i", "j", "k", "l", "m",
              "n", "o", "p", "q", "r", "s", "t", "u", "v", "w", "x", "y", "z">>
UpperCase == <<"A", "B", "C", "D", "E", "F", "G", "H", "I", "J", "K", "L", "M",
              "N", "O", "P", "Q", "R", "S", "T", "U", "V", "W", "X", "Y", "Z">>
Digits == {"0", "1", "2", "3", "4", "5", "6", "7", "8", "9"}

IndexIn(alphabet, c) == CHOOSE k \in 1..Len(alphabet) : alphabet[k] = c

toUpperCase(c) == IF c \in Range(LowerCase) THEN UpperCase[IndexIn(LowerCase, c)] ELSE c

toLowerCase(c) == IF c \in Range(UpperCase) THEN LowerCase[IndexIn(UpperCase, c)] ELSE c

\* the regular expression classes \w and \S
IsWordChar(c) == c \in Range(LowerCase) \cup Range(UpperCase) \cup Digits \cup {"_"}
IsNonSpace(c) == c # " "

\* str.replace(/[-_]/g, ' ') and then every match of \w\S* with its first
\* character in upper case and the others in lower case
toTitleCase(str) ==
    LET spaced == [k \in 1..Len(str) |-> IF str[k] \in {"-", "_"} THEN " " ELSE str[k]]
        at[k \in 0..Len(spaced)] ==
            IF k = 0 THEN "out"
            ELSE IF at[k - 1] # "out" /\ IsNonSpace(spaced[k]) THEN "rest"
            ELSE IF IsWordChar(spaced[k]) THEN "first"
            ELSE "out"
    IN  [k \in 1..Len(spaced) |->
            IF at[k] = "first" THEN toUpperCase(spaced[k])
            ELSE IF at[k] = "rest" THEN toLowerCase(spaced[k])
            ELSE spaced[k]]

\* name.split('.').slice(0, -1).join('.'): the name up to its last dot, the
\* empty string when it has no dot
fileNameWithoutExt(name) ==
    LET dots == {k \in 1..Len(name) : name[k] = "."}
    IN  IF dots = {} THEN <<>>
        ELSE SubSeq(name, 1, (CHOOSE k \in dots : \A m \in dots : m <= k) - 1)

\* The files the user can select.  rows is what lines.map of parseCsv makes
\* of the lines below the header before it looks at the duration
\* (csv-uploader.tsx 86-119); none of them has an id column.
File(name, rows) == [name |-> name, rows |-> rows, none |-> FALSE]

Files ==
    {File(<<"p", "l", "a", "n", "_", "a", ".", "c", "s", "v">>,
          <<RawTask("B", "B", FirstStart, 1, <<"A">>, "ann"),
            RawTask("A", "A", FirstStart, 2, <<>>, "ann")>>),
     File(<<"P", "L", "A", "N", "-", "x", "2", ".", "v", "1", ".", "c", "s", "v">>,
          <<RawTask("Z", "Z", FirstStart, 1, <<>>, ""),
            RawTask("T", "T", FirstStart, 1, <<"Z">>, "ann"),
            RawTask("U", "U", FirstStart, 1, <<>>, "ann")>>),
     File(<<"t", "e", "a", "c", "s", "v">>,
          <<RawTask("A", "A", FirstStart, 1, <<"x">>, "")>>),
     File(<<"l", "a", "p", ".", "c", "s", "v">>,
          <<RawTask("A", "A", FirstStart, 1, <<"B">>, ""),
            RawTask("B", "B", FirstStart, 1, <<"A">>, "")>>),
     File(<<"n", "e", "t", ".", "c", "s", "v">>,
          <<RawTask("A", "A", FirstStart, 1, <<>>, ""),
            RawTask("B", "B", FirstStart, 0, <<>>, "")>>)}

\* page.tsx 69 and 73: the cell is the text between double quotes
Quoted(text) == "\"" \o text \o "\""

\* page.tsx 68-75: the cells of the line Export CSV writes for a task; the
\* dependencies cell is the titles joined by ';' between double quotes
csvRowOf(task) ==
    [title |-> Quoted(task.title),
     startDate |-> task.startDate,
     duration |-> task.workingDuration,
     dependencies |-> [quoted |-> TRUE, items |-> task.dependencies],
     resource |-> IF Truthy(task.resource) THEN Quoted(task.resource) ELSE ""]

\* csv-uploader.tsx 109: the cell split at ';', pieces trimmed, empty pieces
\* dropped; the quotes of the cell stay with the first and the last piece
splitDependencies(cell) ==
    LET n == Len(cell.items)
    IN  IF ~cell.quoted THEN cell.items
        ELSE IF n = 0 THEN <<Quoted("")>>
        ELSE IF n = 1 THEN <<Quoted(cell.items[1])>>
        ELSE [k \in 1..n |->
                 IF k = 1 THEN "\"" \o cell.items[k]
                 ELSE IF k = n THEN cell.items[k] \o "\""
                 ELSE cell.items[k]]

\* csv-uploader.tsx 93-118 for a line of a file without an id column
rawTaskOfRow(row) ==
    RawTask(rawId(FALSE, "", row.title), row.title, row.startDate, row.duration,
            splitDependencies(row.dependencies), row.resource)

\* page.tsx 77-88: the file the browser saves, gantt-chart-export.csv
exportedFile(chart) ==
    File(<<"g", "a", "n", "t", "t", "-", "c", "h", "a", "r", "t", "-",
           "e", "x", "p", "o", "r", "t", ".", "c", "s", "v">>,
         [m \in 1..Len(chart) |-> rawTaskOfRow(csvRowOf(chart[m]))])

MaxUploads == 2        \* uploads started: at most MaxUploads more than have failed

engineVars == <<rawTasks, tz, pc, i, pass, changedInPass, processed, taskMap,
                orderedTasks, resourceEndDates, outcome>>

\* the page is loaded and waits for the user; processTasks is not running
UiInit ==
    /\ EnvInit
    /\ rawTasks = <<>>
    /\ tz = 0
    /\ pc = "idle"
    /\ i = 1
    /\ pass = 0
    /\ changedInPass = TRUE
    /\ processed = {}
    /\ taskMap = EmptyMap
    /\ orderedTasks = <<>>
    /\ resourceEndDates = EmptyMap
    /\ outcome = NoOutcome

\* page.tsx 170: the sheet is opened or closed
OpenChange ==
    /\ pc = "idle"
    /\ isUploaderOpen' = ~isUploaderOpen
    /\ event' = "sheet"
    /\ UNCHANGED <<engineVars, callerVars, tasks, key, file, projectName, pending,
                   toast, download>>

\* csv-uploader.tsx 28-35, from the Select CSV File button shown while no
\* file is selected (147-150)
handleFileChange ==
    /\ pc = "idle"
    /\ isUploaderOpen
    /\ file.none
    /\ \E selectedFile \in Files \cup ({download} \ {NoFile}) :
          /\ projectName' = toTitleCase(fileNameWithoutExt(selectedFile.name))
          /\ file' = selectedFile
    /\ event' = "select"
    /\ UNCHANGED <<engineVars, callerVars, tasks, key, isUploaderOpen, pending,
                   toast, download>>

\* csv-uploader.tsx 158: the user types another project name
TypedNames == {<<"Q", "3">>}

setProjectName ==
    /\ pc = "idle"
    /\ isUploaderOpen
    /\ ~file.none
    /\ \E name \in TypedNames : projectName # name /\ projectName' = name
    /\ event' = "rename"
    /\ UNCHANGED <<engineVars, callerVars, tasks, key, isUploaderOpen, file,
                   pending, toast, download>>

\* csv-uploader.tsx 37-47 and 71, from the Create Chart button shown while a
\* file is selected (152-165): the read is started, reader.onload runs later
\* with the file and the project name of this moment
handleProcessFile ==
    /\ pc = "idle"
    /\ isUploaderOpen
    /\ ~file.none
    /\ key + Len(pending) < MaxUploads
    /\ IF file.none
       THEN /\ toast' = [variant |-> "destructive", title |-> "No File Selected",
                         description |-> "Please select a CSV file to upload."]
            /\ UNCHANGED pending
       ELSE /\ pending' = Append(pending, [file |-> file, projectName |-> projectName,
                                           loading |-> FALSE])
            /\ UNCHANGED toast
    /\ event' = "create"
    /\ UNCHANGED <<engineVars, callerVars, tasks, key, isUploaderOpen, file,
                   projectName, download>>

\* csv-uploader.tsx 48-51: the read is complete, reader.onload starts and
\* calls parseCsv with the text of the file
OnLoad ==
    /\ pc = "idle"
    /\ \E j \in 1..Len(pending) :
          /\ pending' = [pending EXCEPT ![j].loading = TRUE]
          /\ rawTasks' = pending[j].file.rows
    /\ pc' = "parse"
    /\ event' = "load"
    /\ UNCHANGED <<tz, i, pass, changedInPass, processed, taskMap, orderedTasks,
                   resourceEndDates, outcome, callerVars, tasks, key,
                   isUploaderOpen, file, projectName, toast, download>>

\* a variant that adds the new tasks to the chart's tasks
handleDataUploaded_Merges(newTasks) ==
    /\ tasks' = tasks \o newTasks
    /\ key' = key + 1
    /\ isUploaderOpen' = FALSE

\* page.tsx 53-57
handleDataUploaded(newTasks) ==
    /\ tasks' = newTasks
    /\ key' = key + 1
    /\ isUploaderOpen' = FALSE

\* the read whose onload is running
Loading == CHOOSE j \in 1..Len(pending) : pending[j].loading

WithoutLoading == SubSeq(pending, 1, Loading - 1) \o SubSeq(pending, Loading + 1, Len(pending))

\* a variant that keeps the file and the project name after an error
OnLoadEnd_KeepsFileOnError ==
    /\ pc = "done"
    /\ IF outcome.kind = "returned"
       THEN /\ handleDataUploaded(outcome.tasks)
            /\ toast' = [variant |-> "default", title |-> "Success",
                         description |-> <<Len(outcome.tasks), pending[Loading].projectName>>]
            /\ event' = "uploaded"
            /\ file' = NoFile
            /\ projectName' = <<>>
       ELSE /\ toast' = [variant |-> "destructive", title |-> "CSV Parsing Error",
                         description |-> outcome.message]
            /\ event' = "failed"
            /\ UNCHANGED <<tasks, key, isUploaderOpen, file, projectName>>
    /\ pending' = WithoutLoading
    /\ rawTasks' = <<>>
    /\ pc' = "idle"
    /\ i' = 1
    /\ pass' = 0
    /\ changedInPass' = TRUE
    /\ processed' = {}
    /\ taskMap' = EmptyMap
    /\ orderedTasks' = <<>>
    /\ resourceEndDates' = EmptyMap
    /\ outcome' = NoOutcome
    /\ UNCHANGED <<tz, callerVars, download>>

\* csv-uploader.tsx 51-69: parseCsv has returned or thrown; the rest of
\* reader.onload
OnLoadEnd ==
    /\ pc = "done"
    /\ IF outcome.kind = "returned"
       THEN /\ handleDataUploaded(outcome.tasks)
            /\ toast' = [variant |-> "default", title |-> "Success",
                         description |-> <<Len(outcome.tasks), pending[Loading].projectName>>]
            /\ event' = "uploaded"
       ELSE /\ toast' = [variant |-> "destructive", title |-> "CSV Parsing Error",
                         description |-> outcome.message]
            /\ event' = "failed"
            /\ UNCHANGED <<tasks, key, isUploaderOpen>>
    /\ file' = NoFile
    /\ projectName' = <<>>
    /\ pending' = WithoutLoading
    /\ rawTasks' = <<>>
    /\ pc' = "idle"
    /\ i' = 1
    /\ pass' = 0
    /\ changedInPass' = TRUE
    /\ processed' = {}
    /\ taskMap' = EmptyMap
    /\ orderedTasks' = <<>>
    /\ resourceEndDates' = EmptyMap
    /\ outcome' = NoOutcome
    /\ UNCHANGED <<tz, callerVars, download>>

\* page.tsx 59-62, from the Clear Chart Data button shown while the chart has
\* tasks (csv-uploader.tsx 176-182)
handleClear ==
    /\ pc = "idle"
    /\ isUploaderOpen
    /\ tasks # <<>>
    /\ tasks' = <<>>
    /\ isUploaderOpen' = FALSE
    /\ event' = "clear"
    /\ UNCHANGED <<engineVars, callerVars, key, file, projectName, pending, toast,
                   download>>

\* page.tsx 64-89, from the Export CSV button shown while the chart has
\* tasks (164-169)
handleExport ==
    /\ pc = "idle"
    /\ tasks # <<>>
    /\ IF Len(tasks) = 0 THEN UNCHANGED download
       ELSE download' = exportedFile(tasks)
    /\ event' = "export"
    /\ UNCHANGED <<engineVars, callerVars, tasks, key, isUploaderOpen, file,
                   projectName, pending, toast>>

UiNext ==
    \/ OpenChange
    \/ handleFileChange
    \/ setProjectName
    \/ handleProcessFile
    \/ OnLoad
    \/ ParseThrow
    \/ ParsePass
    \/ Next
    \/ OnLoadEnd
    \/ handleClear
    \/ handleExport

UiSpec == UiInit /\ [][UiNext]_vars

\* the step in which reader.onload ends after parseCsv returned / threw
UploadSucceeds == pc = "done" /\ outcome.kind = "returned" /\ pc' = "idle"
UploadFails == pc = "done" /\ outcome.kind = "error" /\ pc' = "idle"

(* C26: a successful upload makes the chart's tasks exactly the resolved    *)
(* list of the uploaded file, none of the previous chart kept; Clear makes  *)
(* them empty; nothing else changes them, so the chart shows the last       *)
(* successful upload since the last clear, or nothing                       *)

C26_ChartIsLastUpload ==
    /\ [][/\ UploadSucceeds =>
                /\ rawTasks = pending[Loading].file.rows
                /\ tasks' = Resolved
                /\ Len(tasks') = Len(rawTasks)
                /\ \A m \in 1..Len(tasks') : \E k \in Rows : ScheduledFrom(tasks'[m], k)
          /\ event' = "clear" => tasks' = <<>>
          /\ (~UploadSucceeds /\ event' # "clear") => tasks' = tasks]_vars
    /\ [](/\ event = "clear" => tasks = <<>>
          /\ event = "uploaded" => tasks # <<>>
          /\ key = 0 => tasks = <<>>)

\* the second successful upload: three tasks in the chart, after a chart of
\* two tasks that was exported
C26_Witness ==
    /\ event = "uploaded"
    /\ key = 2
    /\ Len(tasks) = 3
    /\ ~download.none
    /\ Len(download.rows) = 2

(* C30: a failed upload (parse error, unknown dependency, circular          *)
(* dependency) leaves the chart's tasks as they were: handleDataUploaded is *)
(* not called and only the error notification is raised; after a failed or  *)
(* a successful upload no file is selected and the project name is empty    *)

C30_FailedUploadKeepsChart ==
    [][/\ UploadFails =>
            /\ tasks' = tasks
            /\ key' = key
            /\ isUploaderOpen' = isUploaderOpen
            /\ toast' = [variant |-> "destructive", title |-> "CSV Parsing Error",
                         description |-> outcome.message]
            /\ outcome.message \in {"invalidDuration", "dependencyNotFound",
                                     "circularDependency"}
      /\ (UploadSucceeds \/ UploadFails) =>
            /\ file' = NoFile
            /\ projectName' = <<>>]_vars

\* a file with a cycle was uploaded while the chart had tasks and the sheet
\* was open: the chart is as before, the sheet still open
C30_Witness ==
    /\ event = "failed"
    /\ toast.description = "circularDependency"
    /\ tasks # <<>>
    /\ key = 1
    /\ isUploaderOpen
    /\ file.none

====
